---- MODULE Spec2Model ----
(***************************************************************************)
(* A model of rclone_pathmap.py: the path index built by _create_app, the  *)
(* aiohttp request handler with the metadata cache and the streaming of    *)
(* `rclone cat`, and the mount session (RClonePathmap inside               *)
(* MountTemporaryDirectory).                                               *)
(*                                                                         *)
(* A Python str is a sequence of one-character strings, so that split,     *)
(* join and concatenation are computed and not assumed.                    *)
(***************************************************************************)
EXTENDS Integers, Sequences, FiniteSets, TLC

VARIABLES
  mappings,     \* the dict handed to _create_app: <<[path, remote], ...>> in insertion order
  listing,      \* _create_app's `listing`: directory key -> its entries in insertion order
  app,          \* "new" before _create_app has run, "serving" after
  req,          \* per connection: the handler coroutine's position and its response
  cache,        \* _async_lru_cache's _cache of _rclone_file_headers: key -> value
  stored,       \* per remote location: the values written to the cache so far, in order
  clock,        \* datetime.now(), in seconds
  pipe,         \* per connection: the stdout pipe of its `rclone cat` process
  ms,           \* the mount session: _mount_main's coroutine and its environment
  bc            \* a function decorated with _async_lru_cache(cache_size) and its callers

indexVars == <<mappings, listing, app>>
httpVars  == <<req, cache, stored, clock, pipe>>
vars      == <<mappings, listing, app, req, cache, stored, clock, pipe, ms, bc>>

-----------------------------------------------------------------------------
(* Bounds of the model *)

\* the deepest virtual path drawn for the path index, in segments
MaxDepth == 3
\* the largest number of entries of a mapping drawn for the path index
MaxMappings == 2

\* the segment names virtual paths are drawn from
Names == {"a", "b"}

-----------------------------------------------------------------------------
(* Python strings *)

Slash == <<"/">>

RECURSIVE IndexOfSlash(_, _)
\* s.find('/') counted from position i (1-based); 0 when there is none
IndexOfSlash(s, i) ==
  IF i > Len(s) THEN 0
  ELSE IF s[i] = "/" THEN i
  ELSE IndexOfSlash(s, i + 1)

RECURSIVE Split(_)
\* s.split('/')
Split(s) ==
  LET i == IndexOfSlash(s, 1) IN
  IF i = 0 THEN <<s>>
  ELSE <<SubSeq(s, 1, i - 1)>> \o Split(SubSeq(s, i + 1, Len(s)))

RECURSIVE Join(_)
\* '/'.join(segs)
Join(segs) ==
  IF segs = <<>> THEN <<>>
  ELSE IF Len(segs) = 1 THEN segs[1]
  ELSE segs[1] \o Slash \o Join(Tail(segs))

\* segs[:n] for 0 <= n
Take(segs, n) == SubSeq(segs, 1, IF n < Len(segs) THEN n ELSE Len(segs))

\* s.startswith(p)
StartsWith(s, p) == Len(p) <= Len(s) /\ SubSeq(s, 1, Len(p)) = p

Range(f) == {f[i] : i \in DOMAIN f}

-----------------------------------------------------------------------------
(* _create_app: the path index *)

EmptyDict == [k \in {} |-> <<>>]

\* if parent not in listing: listing[parent] = {} ; listing[parent][child] = True
\* (a dict keeps its keys in first-insertion order and holds each key once)
SetEntry(l, parent, child) ==
  LET cur == IF parent \in DOMAIN l THEN l[parent] ELSE <<>>
      new == IF child \in Range(cur) THEN cur ELSE Append(cur, child)
  IN [k \in DOMAIN l \cup {parent} |-> IF k = parent THEN new ELSE l[k]]

RECURSIVE PrefixLoopMut(_, _, _)
\* the loop with its range one short: range(1, len(src_split) - 1)
PrefixLoopMut(l, src_split, i) ==
  IF i >= Len(src_split) - 1 THEN l
  ELSE LET path_parent  == Join(Take(src_split, i - 1)) \o Slash
           path_current == Join(Take(src_split, i)) \o Slash
       IN PrefixLoopMut(SetEntry(l, path_parent, path_current), src_split, i + 1)

RECURSIVE PrefixLoop(_, _, _)
\* for i in range(i, len(src_split)): the body of lines 144-147
PrefixLoop(l, src_split, i) ==
  IF i >= Len(src_split) THEN l
  ELSE LET path_parent  == Join(Take(src_split, i - 1)) \o Slash
           path_current == Join(Take(src_split, i)) \o Slash
       IN PrefixLoop(SetEntry(l, path_parent, path_current), src_split, i + 1)

\* the iteration without its last three lines: the file itself is not entered
AddMappingMut(l, mapping) == PrefixLoop(l, Split(mapping), 1)

\* one iteration of `for mapping in mappings` (lines 142-150)
AddMapping(l, mapping) ==
  LET src_split   == Split(mapping)
      l1          == PrefixLoop(l, src_split, 1)
      path_parent == Join(Take(src_split, Len(src_split) - 1)) \o Slash
  IN SetEntry(l1, path_parent, src_split[Len(src_split)])

RECURSIVE BuildFrom(_, _, _)
BuildFrom(l, m, i) ==
  IF i > Len(m) THEN l ELSE BuildFrom(AddMapping(l, m[i].path), m, i + 1)

\* the listing _create_app builds from the mapping m (lines 140-150)
BuildListing(m) == BuildFrom(EmptyDict, m, 1)

\* path in mappings
IsMapped(m, path) == \E i \in DOMAIN m : m[i].path = path

\* mappings[path]
RemoteOf(m, path) == m[CHOOSE i \in DOMAIN m : m[i].path = path].remote

Keys(m) == {m[i].path : i \in DOMAIN m}

-----------------------------------------------------------------------------
(* The mappings the checks draw *)

\* '/' + '/'.join(names): a well-formed virtual path of Len(names) segments
PathOf(names) == Slash \o Join([i \in DOMAIN names |-> <<names[i]>>])

VirtualPaths ==
  UNION {{PathOf(ns) : ns \in [1..d -> Names]} : d \in 1..MaxDepth}

\* every dict of 1..MaxMappings distinct virtual paths, in every insertion order
AllMappings ==
  UNION {{m \in [1..n -> [path : VirtualPaths, remote : {"locA"}]] :
            \A i, j \in 1..n : i # j => m[i].path # m[j].path}
         : n \in 1..MaxMappings}

-----------------------------------------------------------------------------
(* The external tool, as the server sees it *)

Locs == {"locA", "locB"}

NoneVal == [none |-> TRUE]

\* the bytes `rclone cat <loc>` writes to its stdout
Content(loc) == IF loc = "locA" THEN <<"x", "y", "z">> ELSE <<>>

\* the MimeType and ModTime `rclone lsjson <loc>` reports
MimeType(loc) == IF loc = "locA" THEN "text/plain" ELSE "application/octet-stream"
ModTime(loc) == IF loc = "locA" THEN 7 ELSE 9

\* chunk_size (8192 in the source), scaled to the few bytes of Content
chunk_size == 2

\* how far datetime.now() advances
MaxClock == 1

Requests == {"r1", "r2"}
Methods == {"GET", "HEAD", "POST"}

-----------------------------------------------------------------------------
(* _async_lru_cache and _rclone_file_headers *)

\* k = json.dumps(dict(args=args, kwargs=kwargs)) for the call f(rclone_path)
CacheKey(rclone_path) == <<"args", <<rclone_path>>, "kwargs", <<>>>>

\* k in _cache
CacheHit(c, k) == k \in DOMAIN c

\* _cache[k] = <value of the awaited call>; cache_size is None, so nothing is popped
CacheStore(c, k, v) == [x \in DOMAIN c \cup {k} |-> IF x = k THEN v ELSE c[x]]

\* the dict of lines 93-98, built when the query returns at time `now`
FileHeaders(loc, now) ==
  [ContentLength |-> Len(Content(loc)),
   ContentType   |-> MimeType(loc),
   Date          |-> now,
   LastModified  |-> ModTime(loc)]

\* what `await func(...)` yields for each way the lsjson process can end:
\* a non-zero return code gives None, one JSON object gives the headers
QueryResult(loc, outcome, now) ==
  IF outcome = "nonzero" THEN NoneVal ELSE FileHeaders(loc, now)

-----------------------------------------------------------------------------
(* The handler *)

IdleReq ==
  [pc |-> "idle", method |-> "", path |-> <<>>, loc |-> "", headers |-> NoneVal,
   status |-> 0, sent |-> FALSE, body |-> <<>>, procs |-> <<>>,
   finalized |-> FALSE, crashed |-> FALSE, cancelled |-> FALSE]

NoPipe == [open |-> FALSE, bound |-> FALSE, pending |-> <<>>, buf |-> <<>>, eof |-> FALSE]

\* app.add_routes([web.get('/{path:.*}', handler)]): the handler is registered for
\* GET (and, through web.get, HEAD); any other method never reaches it
Routed(method) == method \in {"GET", "HEAD"}

\* the three branches of the handler on `path`
Lookup(m, l, path) ==
  IF IsMapped(m, path) THEN "File"
  ELSE IF path \in DOMAIN l THEN "Directory"
  ELSE "NotFound"

\* ''.join(f"<a href='{p}'>{p}</a>" for p in listing[path])
RenderListing(entries) ==
  [i \in DOMAIN entries |-> [href |-> entries[i], text |-> entries[i]]]

\* an empty 200 answer in place of the 404
NotFoundMut(q) == [q EXCEPT !.pc = "done", !.status = 200, !.sent = TRUE]

\* raise web.HTTPNotFound
NotFound(q) == [q EXCEPT !.pc = "done", !.status = 404]

\* the HEAD answer takes its Content-Length from its empty body
AfterHeadersMut(q, headers) ==
  IF headers = NoneVal THEN [q EXCEPT !.pc = "done", !.status = 404]
  ELSE IF q.method = "HEAD"
    THEN [q EXCEPT !.pc = "done", !.status = 200, !.sent = TRUE,
                   !.headers = [headers EXCEPT !.ContentLength = 0]]
    ELSE [q EXCEPT !.pc = "spawn_cat", !.headers = headers,
                   !.procs = Append(@, <<"cat", q.loc>>)]

\* _serve_rclone_file from the return of _rclone_file_headers to its next await
AfterHeaders(q, headers) ==
  IF headers = NoneVal THEN NotFound(q)
  ELSE IF q.method = "HEAD"
    THEN [q EXCEPT !.pc = "done", !.status = 200, !.sent = TRUE, !.headers = headers]
    ELSE [q EXCEPT !.pc = "spawn_cat", !.headers = headers,
                   !.procs = Append(@, <<"cat", q.loc>>)]

\* end of file taken from the eof flag alone, buffered bytes ignored
AtEofMut(p) == p.eof

\* proc.stdout.at_eof()
AtEof(p) == p.eof /\ p.buf = <<>>

\* the head of `while not proc.stdout.at_eof()`, and write_eof() after the loop
LoopHead(q, p) ==
  IF AtEof(p) THEN [q EXCEPT !.pc = "done", !.finalized = TRUE]
  ELSE [q EXCEPT !.pc = "read"]

\* a request arrives: the router, the handler and, for a file, _serve_rclone_file
\* up to its first suspension
Handle(r, method, path) ==
  /\ app = "serving"
  /\ req[r].pc = "idle"
  /\ LET q == [IdleReq EXCEPT !.method = method, !.path = path] IN
     IF ~Routed(method) THEN
       /\ req' = [req EXCEPT ![r] = [q EXCEPT !.pc = "done", !.status = 405]]
       /\ UNCHANGED cache
     ELSE IF Lookup(mappings, listing, path) = "File" THEN
       LET loc == RemoteOf(mappings, path)
           k   == CacheKey(loc)
           qf  == [q EXCEPT !.loc = loc]
       IN IF CacheHit(cache, k) THEN
            /\ req' = [req EXCEPT ![r] = AfterHeaders(qf, cache[k])]
            /\ UNCHANGED cache
          ELSE
            /\ req' = [req EXCEPT ![r] =
                         [qf EXCEPT !.pc = "lsjson",
                                    !.procs = Append(@, <<"lsjson", loc>>)]]
            /\ UNCHANGED cache
     ELSE IF Lookup(mappings, listing, path) = "Directory" THEN
       /\ req' = [req EXCEPT ![r] =
                    [q EXCEPT !.pc = "done", !.status = 200, !.sent = TRUE,
                              !.body = RenderListing(listing[path])]]
       /\ UNCHANGED cache
     ELSE
       /\ req' = [req EXCEPT ![r] = NotFound(q)]
       /\ UNCHANGED cache
  /\ UNCHANGED <<indexVars, stored, clock, pipe, ms, bc>>

\* the lsjson process of r's cache miss ends: lines 90-98, then lines 72-76 of the
\* wrapper and _serve_rclone_file up to its next await
LsjsonExit(r, outcome) ==
  /\ req[r].pc = "lsjson"
  /\ LET q   == req[r]
         loc == q.loc
         k   == CacheKey(loc)
     IN IF outcome = "empty" THEN
          \* `file_metadata, = json.loads(stdout)` raises: the handler ends in a 500
          /\ req' = [req EXCEPT ![r] = [q EXCEPT !.pc = "done", !.status = 500]]
          /\ UNCHANGED <<cache, stored>>
        ELSE
          LET c2 == CacheStore(cache, k, QueryResult(loc, outcome, clock)) IN
          /\ cache' = c2
          /\ req' = [req EXCEPT ![r] = AfterHeaders(q, c2[k])]
          /\ stored' = [stored EXCEPT ![loc] = Append(@, c2[k])]
  /\ UNCHANGED <<indexVars, clock, pipe, ms, bc>>

\* create_subprocess_exec('rclone', 'cat', ...) returns a process, or raises and the
\* except clause logs the error and leaves `proc` unbound (lines 110-117)
CatSpawned(r, ok) ==
  /\ req[r].pc = "spawn_cat"
  /\ req' = [req EXCEPT ![r].pc = "prepare"]
  /\ pipe' = [pipe EXCEPT ![r] =
                IF ok THEN [NoPipe EXCEPT !.open = TRUE, !.bound = TRUE,
                                          !.pending = Content(req[r].loc)]
                ELSE NoPipe]
  /\ UNCHANGED <<indexVars, cache, stored, clock, ms, bc>>

\* response.prepare(request) sends the status line and the headers; then the loop
\* head reads proc.stdout, which raises when `proc` is unbound (lines 118-124)
Prepare(r) ==
  /\ req[r].pc = "prepare"
  /\ LET q == [req[r] EXCEPT !.status = 200, !.sent = TRUE] IN
     req' = [req EXCEPT ![r] =
               IF pipe[r].bound THEN LoopHead(q, pipe[r])
               ELSE [q EXCEPT !.pc = "done", !.crashed = TRUE]]
  /\ UNCHANGED <<indexVars, cache, stored, clock, pipe, ms, bc>>

\* the cat process writes its next n bytes to the pipe
ProcEmit(r, n) ==
  /\ pipe[r].open
  /\ n \in 1..Len(pipe[r].pending)
  /\ LET p     == pipe[r]
         piece == SubSeq(p.pending, 1, n)
     IN pipe' = [pipe EXCEPT ![r] =
                   [p EXCEPT !.pending = SubSeq(p.pending, n + 1, Len(p.pending)),
                             !.buf = @ \o piece]]
  /\ UNCHANGED <<indexVars, req, cache, stored, clock, ms, bc>>

\* the cat process has written everything and closes its stdout
ProcEof(r) ==
  /\ pipe[r].open
  /\ pipe[r].pending = <<>>
  /\ ~pipe[r].eof
  /\ pipe' = [pipe EXCEPT ![r].eof = TRUE]
  /\ UNCHANGED <<indexVars, req, cache, stored, clock, ms, bc>>

\* one round of the loop (lines 124-126): chunk = await proc.stdout.read(chunk_size)
\* returns up to chunk_size buffered bytes, or b'' at end of file; response.write(chunk)
\* appends it to the body; then the loop head is evaluated again
ReadWrite(r) ==
  /\ req[r].pc = "read"
  /\ pipe[r].buf # <<>> \/ pipe[r].eof
  /\ LET p     == pipe[r]
         n     == IF Len(p.buf) < chunk_size THEN Len(p.buf) ELSE chunk_size
         chunk == SubSeq(p.buf, 1, n)
         p2    == [p EXCEPT !.buf = SubSeq(p.buf, n + 1, Len(p.buf))]
     IN /\ pipe' = [pipe EXCEPT ![r] = p2]
        /\ req' = [req EXCEPT ![r] =
                     LoopHead([req[r] EXCEPT !.body = @ \o chunk], p2)]
  /\ UNCHANGED <<indexVars, cache, stored, clock, ms, bc>>

\* the `rclone cat` process of r has been started and has not closed its stdout
Running(p) == p.open /\ ~p.eof

\* the client disconnects mid-stream: aiohttp cancels the handler task, and
\* CancelledError leaves _serve_rclone_file at the await of line 125 or 126;
\* there is no try/finally around the loop, so nothing is done to `proc`
Cancel(r) ==
  /\ req[r].pc = "read"
  /\ Running(pipe[r])
  /\ req' = [req EXCEPT ![r] = [@ EXCEPT !.pc = "done", !.cancelled = TRUE]]
  /\ UNCHANGED <<indexVars, cache, stored, clock, pipe, ms, bc>>

\* the connection is done with its response and takes the next request
Close(r) ==
  /\ req[r].pc = "done"
  /\ req' = [req EXCEPT ![r] = IdleReq]
  /\ pipe' = [pipe EXCEPT ![r] = NoPipe]
  /\ UNCHANGED <<indexVars, cache, stored, clock, ms, bc>>

\* a second passes
Tick ==
  /\ app = "serving"
  /\ clock < MaxClock
  /\ clock' = clock + 1
  /\ UNCHANGED <<indexVars, req, cache, stored, pipe, ms, bc>>

\* _create_app(mappings) builds the listing and the application
CreateApp ==
  /\ app = "new"
  /\ listing' = BuildListing(mappings)
  /\ app' = "serving"
  /\ UNCHANGED <<mappings, httpVars, ms, bc>>

-----------------------------------------------------------------------------
(* _async_lru_cache(cache_size) with a bound: the wrapper over an OrderedDict, *)
(* called by concurrent coroutines                                             *)

\* the cache_size the decorator is given
cache_size == 2

\* the keys the callers ask for: one more than the cache holds
BcKeys == 1..(cache_size + 1)

Callers == {"c1", "c2"}

\* no bounded cache: _rclone_file_headers is decorated with cache_size=None
BcOff == [pc |-> "off"]

IdleCall == [pc |-> "idle", k |-> 0, hit |-> FALSE, ret |-> <<>>, err |-> "none"]

\* _cache = OrderedDict(): the items in the dict's order, oldest first. `order`
\* is not in the code: it lists the keys by their last use (store or hit), least
\* recent first
BcStart ==
  [pc |-> "on", cache |-> <<>>, call |-> [c \in Callers |-> IdleCall],
   order |-> <<>>]

OdKeys(od) == {od[i].k : i \in DOMAIN od}

\* _cache[k]
OdGet(od, k) == od[CHOOSE i \in DOMAIN od : od[i].k = k].v

\* _cache[k] = v: a key the dict holds keeps its place, a new key goes last
OdSet(od, k, v) ==
  IF k \in OdKeys(od)
  THEN [i \in DOMAIN od |-> IF od[i].k = k THEN [k |-> k, v |-> v] ELSE od[i]]
  ELSE Append(od, [k |-> k, v |-> v])

RECURSIVE TrimMut(_)
\* the loop with popitem() for popitem(False): it pops the newest item
TrimMut(od) ==
  IF Len(od) > cache_size THEN TrimMut(SubSeq(od, 1, Len(od) - 1)) ELSE od

RECURSIVE Trim(_)
\* while len(_cache) > cache_size: _cache.popitem(False)   (lines 74-75)
Trim(od) == IF Len(od) > cache_size THEN Trim(Tail(od)) ELSE od

\* k becomes the most recently used key
Touch(order, k) == SelectSeq(order, LAMBDA x : x # k) \o <<k>>

\* wrapper(k) up to its first suspension (lines 66-72): a hit returns _cache[k],
\* a miss awaits func
BcCall(c, k) ==
  /\ bc.pc = "on"
  /\ bc.call[c].pc = "idle"
  /\ bc' = IF k \in OdKeys(bc.cache)
           THEN [bc EXCEPT !.call[c] = [IdleCall EXCEPT !.pc = "done", !.k = k,
                                          !.hit = TRUE, !.ret = OdGet(bc.cache, k)],
                           !.order = Touch(@, k)]
           ELSE [bc EXCEPT !.call[c] = [IdleCall EXCEPT !.pc = "fetch", !.k = k]]
  /\ UNCHANGED <<indexVars, req, cache, stored, clock, pipe, ms>>

\* func returns to caller c (lines 72-76): the value, here the key and the caller
\* whose call produced it, is stored, the dict is trimmed, and _cache[k] is
\* returned, which raises KeyError when k is no longer there
BcFetchReturns(c) ==
  /\ bc.pc = "on"
  /\ bc.call[c].pc = "fetch"
  /\ LET k   == bc.call[c].k
         od1 == OdSet(bc.cache, k, <<k, c>>)
         od2 == Trim(od1)
     IN bc' = [bc EXCEPT
                 !.cache = od2,
                 !.order = Touch(@, k),
                 !.call[c] = IF k \in OdKeys(od2)
                             THEN [@ EXCEPT !.pc = "done", !.ret = OdGet(od2, k)]
                             ELSE [@ EXCEPT !.pc = "done", !.err = "KeyError"]]
  /\ UNCHANGED <<indexVars, req, cache, stored, clock, pipe, ms>>

\* func raises: nothing is stored and the exception reaches the caller
BcFetchRaises(c) ==
  /\ bc.pc = "on"
  /\ bc.call[c].pc = "fetch"
  /\ bc' = [bc EXCEPT !.call[c] = [@ EXCEPT !.pc = "done", !.err = "FetchError"]]
  /\ UNCHANGED <<indexVars, req, cache, stored, clock, pipe, ms>>

\* the caller has its result and is free to call again
BcReturn(c) ==
  /\ bc.pc = "on"
  /\ bc.call[c].pc = "done"
  /\ bc' = [bc EXCEPT !.call[c] = IdleCall]
  /\ UNCHANGED <<indexVars, req, cache, stored, clock, pipe, ms>>

-----------------------------------------------------------------------------
(* The mappings served in the request checks: the two paths of _create_app's   *)
(* docstring, here both files of one remote location, and a three-level path  *)
(* to an empty remote file                                                    *)

ServedMappings ==
  { <<[path |-> <<"/", "a">>, remote |-> "locA"],
      [path |-> <<"/", "b", "/", "c">>, remote |-> "locA"]>>,
    <<[path |-> <<"/", "a", "/", "b", "/", "c">>, remote |-> "locB"]>> }

\* the paths requested: every file, every directory key, and paths that are neither
RequestPaths(m) ==
  Keys(m) \cup DOMAIN BuildListing(m)
    \cup {<<"/", "x">>, <<"/", "b">>}

InitCommon ==
  /\ listing = EmptyDict
  /\ app = "new"
  /\ req = [r \in Requests |-> IdleReq]
  /\ cache = EmptyDict
  /\ stored = [l \in Locs |-> <<>>]
  /\ clock = 0
  /\ pipe = [r \in Requests |-> NoPipe]

\* no mount session: the `serve` command
MsOff == [pc |-> "off"]

Init == mappings \in ServedMappings /\ InitCommon /\ ms = MsOff /\ bc = BcOff

Next ==
  \/ CreateApp
  \/ \E r \in Requests, m \in Methods, p \in RequestPaths(mappings) : Handle(r, m, p)
  \/ \E r \in Requests, o \in {"ok", "nonzero", "empty"} : LsjsonExit(r, o)
  \/ \E r \in Requests, ok \in BOOLEAN : CatSpawned(r, ok)
  \/ \E r \in Requests : Prepare(r)
  \/ \E r \in Requests, n \in 1..3 : ProcEmit(r, n)
  \/ \E r \in Requests : ProcEof(r)
  \/ \E r \in Requests : ReadWrite(r)
  \/ \E r \in Requests : Close(r)
  \/ \E r \in Requests : Cancel(r)
  \/ Tick

Spec == Init /\ [][Next]_vars

\* the path index alone, over every mapping of the bounds
InitIndex == mappings \in AllMappings /\ InitCommon /\ ms = MsOff /\ bc = BcOff

\* the bounded cache alone
InitCache == mappings = <<>> /\ InitCommon /\ ms = MsOff /\ bc = BcStart

NextCache ==
  \/ \E c \in Callers, k \in BcKeys : BcCall(c, k)
  \/ \E c \in Callers : BcFetchReturns(c)
  \/ \E c \in Callers : BcFetchRaises(c)
  \/ \E c \in Callers : BcReturn(c)

SpecCache == InitCache /\ [][NextCache]_vars

NextIndex == CreateApp

SpecIndex == InitIndex /\ [][NextIndex]_vars

-----------------------------------------------------------------------------
(* The mount session: MountTemporaryDirectory, _serve, RCloneMount and the     *)
(* caller's body, as _mount_main and the tests nest them                       *)

\* _try_wait_for's max_tries
max_tries == 3

\* the file names of the tests' scenario
File1 == <<"f", "i", "l", "e", "-", "1">>
File2 == <<"f", "i", "l", "e", "-", "2">>
File3 == <<"f", "i", "l", "e", "-", "3">>
File4 == <<"f", "i", "l", "e", "-", "4">>

\* the upperdir as _test_init leaves it: file_3 with its content
UpperDir0 == [n \in {File3} |-> <<"u">>]

\* the session before MountTemporaryDirectory is entered. caller: "_mount_main",
\* whose body is `await rclone_pathmap.proc.wait()`, or "test", whose body works in
\* the mount and returns. arg: the mountdir argument, "none" or "given".
MsStart(caller, arg) ==
  [pc |-> "start", caller |-> caller, arg |-> arg,
   dir |-> (arg = "given"),   \* the mount-point directory exists
   child |-> "none",          \* the `rclone mount` process: none, running, exited
   rc |-> 0,                  \* its return code once exited
   mounted |-> FALSE,         \* mountdir.is_mount()
   runner |-> "none",         \* the AppRunner: none, up, cleaned
   handed |-> FALSE,          \* RCloneMount has yielded proc to the caller's body
   spawns |-> 0,              \* `rclone mount` processes started
   tries |-> max_tries,       \* _try_wait_for's countdown
   seen |-> <<>>,             \* what _mountdir.is_mount() returned to _try_wait_for
   events |-> <<>>,           \* what teardown has done, in order
   rmdirs |-> 0,              \* calls of _mountdir.rmdir()
   upper |-> UpperDir0,       \* the upperdir: file name -> content
   written |-> {},            \* the names the caller's body wrote through the mount
   error |-> "none"]          \* the exception propagating out of the session

\* the exception e starts to propagate (the first one is kept for the record)
Raise(m, e) == [m EXCEPT !.error = IF @ = "none" THEN e ELSE @]

\* MountTemporaryDirectory up to its yield (lines 194-201): mkdtemp when no path
\* was given
Acquire ==
  /\ ms.pc = "start"
  /\ ms' = [ms EXCEPT !.pc = "serve", !.dir = TRUE]
  /\ UNCHANGED <<indexVars, httpVars, bc>>

\* _serve up to its yield (lines 179-186): the application is created and the
\* runner listens
ServeStart ==
  /\ ms.pc = "serve"
  /\ listing' = BuildListing(mappings)
  /\ app' = "serving"
  /\ ms' = [ms EXCEPT !.pc = "spawn", !.runner = "up"]
  /\ UNCHANGED <<mappings, httpVars, bc>>

\* proc = await asyncio.create_subprocess_exec(*args) (line 216); when it raises,
\* the exception leaves RCloneMount and _serve's finally runs
SpawnMount(ok) ==
  /\ ms.pc = "spawn"
  /\ ms' = IF ok
           THEN [ms EXCEPT !.pc = "wait", !.child = "running", !.spawns = @ + 1]
           ELSE [Raise(ms, "OSError") EXCEPT !.pc = "cleanup"]
  /\ UNCHANGED <<indexVars, httpVars, bc>>

\* the loop does not wait for the mount: it is left as soon as the process has
\* been started
PollNoWaitMut ==
  /\ ms.pc = "wait"
  /\ ms' = IF ms.child = "exited"
           THEN [Raise(ms, "AssertionError") EXCEPT !.pc = "cleanup"]
           ELSE [ms EXCEPT !.pc = "active", !.handed = TRUE]
  /\ UNCHANGED <<indexVars, httpVars, bc>>

\* the loop looks at the mount point alone: `while not mountdir.is_mount()`
PollMut ==
  /\ ms.pc = "wait"
  /\ ms.mounted
  /\ ms' = IF ms.child = "exited"
           THEN [Raise(ms, "AssertionError") EXCEPT !.pc = "cleanup"]
           ELSE [ms EXCEPT !.pc = "active", !.handed = TRUE]
  /\ UNCHANGED <<indexVars, httpVars, bc>>

\* the loop of lines 218-219 is left: `proc.returncode is None and not
\* mountdir.is_mount()` is false. Then `assert proc.returncode is None` (line 221)
\* either raises, and the exception leaves RCloneMount before its try, or the
\* process is yielded to the caller's body. While the condition is true the
\* coroutine sleeps and nothing changes.
Poll ==
  /\ ms.pc = "wait"
  /\ ms.child = "exited" \/ ms.mounted
  /\ ms' = IF ms.child = "exited"
           THEN [Raise(ms, "AssertionError") EXCEPT !.pc = "cleanup"]
           ELSE [ms EXCEPT !.pc = "active", !.handed = TRUE]
  /\ UNCHANGED <<indexVars, httpVars, bc>>

\* the caller's body ends and the scope of RClonePathmap is left: _mount_main's
\* body returns when the child has exited, a test's body when it is done
BodyEnds ==
  /\ ms.pc = "active"
  /\ ms.caller = "_mount_main" => ms.child = "exited"
  /\ ms' = [ms EXCEPT !.pc = "stop"]
  /\ UNCHANGED <<indexVars, httpVars, bc>>

\* the exception of line 226 leaves _serve without passing its finally
StopMut ==
  /\ ms.pc = "stop"
  /\ ms' = IF ms.child = "exited"
           THEN [Raise(ms, "ProcessLookupError") EXCEPT !.pc = "release"]
           ELSE [ms EXCEPT !.pc = "await_exit", !.events = Append(@, "sigint")]
  /\ UNCHANGED <<indexVars, httpVars, bc>>

\* RCloneMount's finally, proc.send_signal(signal.SIGINT) (line 226): asyncio
\* raises ProcessLookupError for a process that has exited, and then line 227 is
\* skipped
Stop ==
  /\ ms.pc = "stop"
  /\ ms' = IF ms.child = "exited"
           THEN [Raise(ms, "ProcessLookupError") EXCEPT !.pc = "cleanup"]
           ELSE [ms EXCEPT !.pc = "await_exit", !.events = Append(@, "sigint")]
  /\ UNCHANGED <<indexVars, httpVars, bc>>

\* await proc.wait() (line 227) returns
AwaitExit ==
  /\ ms.pc = "await_exit"
  /\ ms.child = "exited"
  /\ ms' = [ms EXCEPT !.pc = "cleanup", !.events = Append(@, "exit")]
  /\ UNCHANGED <<indexVars, httpVars, bc>>

\* _serve's finally: await runner.cleanup() (line 188)
Cleanup ==
  /\ ms.pc = "cleanup"
  /\ ms' = [ms EXCEPT !.pc = "release", !.runner = "cleaned",
                      !.events = Append(@, "cleanup")]
  /\ UNCHANGED <<indexVars, httpVars, bc>>

\* `mountdir is None` (line 203): the directory was made here by mkdtemp
OwnedMut(m) == TRUE

Owned(m) == m.arg = "none"

\* cond(*args) of line 54, as line 203 passes it: _mountdir.is_mount
ReleaseCond(m) == m.mounted

\* MountTemporaryDirectory's finally (line 203), one round of _try_wait_for
\* (lines 53-59) at a time: when cond is true the wait returns True and, for a
\* directory made here, line 204 is next; when the tries run out the wait returns
\* False and the context manager ends
Release ==
  /\ ms.pc = "release"
  /\ LET m == [ms EXCEPT !.seen = Append(@, ms.mounted)]
         over == [m EXCEPT !.pc = "end", !.events = Append(@, "release")]
     IN ms' = IF ReleaseCond(ms)
              THEN IF Owned(ms) THEN [m EXCEPT !.pc = "rmdir"] ELSE over
              ELSE IF ms.tries - 1 <= 0
                   THEN [over EXCEPT !.tries = @ - 1]
                   ELSE [m EXCEPT !.tries = @ - 1]
  /\ UNCHANGED <<indexVars, httpVars, bc>>

\* _mountdir.rmdir() (line 204): the system call fails on a mount point (EBUSY)
\* and removes the empty directory otherwise
Rmdir ==
  /\ ms.pc = "rmdir"
  /\ LET m == [ms EXCEPT !.pc = "end", !.rmdirs = @ + 1,
                         !.events = Append(@, "release")]
     IN ms' = IF ms.mounted THEN Raise(m, "OSError") ELSE [m EXCEPT !.dir = FALSE]
  /\ UNCHANGED <<indexVars, httpVars, bc>>

\* the mount process establishes the mount
MountAppears ==
  /\ ms.pc # "off"
  /\ ms.child = "running"
  /\ ~ms.mounted
  /\ ms' = [ms EXCEPT !.mounted = TRUE]
  /\ UNCHANGED <<indexVars, httpVars, bc>>

\* the mount point stops being a mount (the process unmounts on its way out, or
\* someone unmounts it)
Unmount ==
  /\ ms.pc # "off"
  /\ ms.mounted
  /\ ms' = [ms EXCEPT !.mounted = FALSE]
  /\ UNCHANGED <<indexVars, httpVars, bc>>

\* the mount process exits, by itself or after the interrupt, with return code c
ChildExits(c) ==
  /\ ms.pc # "off"
  /\ ms.child = "running"
  /\ ms' = [ms EXCEPT !.child = "exited", !.rc = c]
  /\ UNCHANGED <<indexVars, httpVars, bc>>

InitMount ==
  /\ mappings \in ServedMappings
  /\ InitCommon
  /\ ms \in {MsStart(c, a) : c \in {"_mount_main", "test"}, a \in {"none", "given"}}
  /\ bc = BcOff

NextMount ==
  \/ Acquire
  \/ ServeStart
  \/ \E ok \in BOOLEAN : SpawnMount(ok)
  \/ Poll
  \/ BodyEnds
  \/ Stop
  \/ AwaitExit
  \/ Cleanup
  \/ Release
  \/ Rmdir
  \/ MountAppears
  \/ Unmount
  \/ \E c \in {0, 1} : ChildExits(c)

\* the event loop resumes the sleeping coroutine of RCloneMount
SpecMount == InitMount /\ [][NextMount]_vars /\ WF_vars(Poll)

\* the child answers the interrupt: once SIGINT has been sent it exits
InterruptedExit == ms.pc = "await_exit" /\ \E c \in {0, 1} : ChildExits(c)

\* the event loop runs every coroutine that is ready (the wait loop, the two
\* finally blocks of RCloneMount and _serve), and the mount process stops on the
\* interrupt, as the tool's interface says
SpecMountFair ==
  /\ InitMount /\ [][NextMount]_vars
  /\ WF_vars(Poll) /\ WF_vars(Stop) /\ WF_vars(AwaitExit) /\ WF_vars(Cleanup)
  /\ WF_vars(InterruptedExit)

-----------------------------------------------------------------------------
(* The merged view of the mount: the union remote that RClonePathmap hands to   *)
(* `rclone mount`, the tool behaving as its interface says (reads fall through *)
(* to the lower upstream when absent in the upper, writes land in a writable   *)
(* upstream), over the upperdir and this program's HTTP server                 *)

\* f":union,upstreams='{upperdir} :http::ro':" (line 244): the upstreams in order
Upstreams == <<[fs |-> "upperdir", ro |-> FALSE], [fs |-> "http", ro |-> TRUE]>>

\* how the http upstream reads one href of a directory page at URL path `base`:
\* the href is resolved against base, must lie under it, and what follows base
\* must be one non-empty segment, a '/' allowed at its end only; <<>> when the
\* link is not an entry of the directory
ParseName(base, href) ==
  LET u    == IF StartsWith(href, Slash) THEN href ELSE base \o href
      name == SubSeq(u, Len(base) + 1, Len(u))
  IN IF ~StartsWith(u, base) THEN <<>>
     ELSE IF IndexOfSlash(name, 1) \notin {0, Len(name)} THEN <<>>
     ELSE name

\* the file names the http upstream finds in the server's page for directory dir
LowerFiles(dir) ==
  IF app # "serving" \/ Lookup(mappings, listing, dir) # "Directory" THEN {}
  ELSE LET page == RenderListing(listing[dir])
       IN {n \in {ParseName(dir, page[i].href) : i \in DOMAIN page} :
             n # <<>> /\ n[Len(n)] # "/"}

\* the names the mount shows at its root: those of every upstream
MergedNames ==
  UNION {IF Upstreams[i].fs = "upperdir" THEN DOMAIN ms.upper ELSE LowerFiles(Slash)
           : i \in DOMAIN Upstreams}

\* the mount works: the session is active, the child runs, the path is mounted
Live == ms.pc = "active" /\ ms.child = "running" /\ ms.mounted

\* the mount process reads a lower file for the caller's body (_test_00_run reads
\* every file of the mount, lines 67-74): a GET to the server
MountGet(r, name) ==
  /\ Live
  /\ name \in LowerFiles(Slash) \ DOMAIN ms.upper
  /\ Handle(r, "GET", Slash \o name)

\* the caller's body writes a new file into the mount (_test_00_run, lines 76-79):
\* the union creates it in a writable upstream, and the http upstream cannot
\* take it
BodyWrite(name) ==
  /\ Live
  /\ ms.caller = "test"
  /\ name \notin MergedNames
  /\ \E i \in DOMAIN Upstreams :
       /\ ~Upstreams[i].ro
       /\ ms' = [ms EXCEPT
                   !.written = @ \cup {name},
                   !.upper = IF Upstreams[i].fs = "upperdir"
                             THEN [n \in DOMAIN @ \cup {name} |->
                                     IF n = name THEN <<"w">> ELSE @[n]]
                             ELSE @]
  /\ UNCHANGED <<indexVars, httpVars, bc>>

\* the mapping of the tests: two files of two remote locations
TestMappings ==
  <<[path |-> Slash \o File1, remote |-> "locA"],
    [path |-> Slash \o File2, remote |-> "locB"]>>

\* the connection of the mount process to the server
MountClients == {"r1"}

InitE2E ==
  /\ mappings = TestMappings
  /\ InitCommon
  /\ ms \in {MsStart("test", a) : a \in {"none", "given"}}
  /\ bc = BcOff

NextE2E ==
  \/ NextMount
  \/ \E r \in MountClients, n \in {File1, File2} : MountGet(r, n)
  \/ BodyWrite(File4)
  \/ \E r \in MountClients, o \in {"ok", "nonzero", "empty"} : LsjsonExit(r, o)
  \/ \E r \in MountClients, ok \in BOOLEAN : CatSpawned(r, ok)
  \/ \E r \in MountClients : Prepare(r)
  \/ \E r \in MountClients, n \in 1..3 : ProcEmit(r, n)
  \/ \E r \in MountClients : ProcEof(r)
  \/ \E r \in MountClients : ReadWrite(r)
  \/ \E r \in MountClients : Close(r)
  \/ Tick

SpecE2E == InitE2E /\ [][NextE2E]_vars

-----------------------------------------------------------------------------
(* Properties of the path index *)

Built == app = "serving"

\* the directory prefixes of a path, read off its characters: '/', '/a/', '/a/b/'
\* for '/a/b/c'
Ancestors(path) == {SubSeq(path, 1, i) : i \in {j \in DOMAIN path : path[j] = "/"}}

\* C1: once _create_app has built the listing, every ancestor directory prefix of
\* every virtual path (the root and each intermediate directory, with its
\* trailing '/') is a key of the listing.
C1_AncestorsAreKeys ==
  Built => \A p \in Keys(mappings) : Ancestors(p) \subseteq DOMAIN listing

\* a three-level path alone in the mapping: its intermediate directories are keys
\* although nothing is mapped to them
C1_Witness ==
  /\ Built
  /\ Keys(mappings) = {<<"/", "a", "/", "b", "/", "a">>}
  /\ {<<"/">>, <<"/", "a", "/">>, <<"/", "a", "/", "b", "/">>} \subseteq DOMAIN listing

\* the path an entry of directory d stands for: an entry that starts with '/' is
\* a path by itself, any other is a name inside d
Denotes(d, e) == IF StartsWith(e, Slash) THEN e ELSE d \o e

\* what follows the directory prefix d in path p
Rest(p, d) == SubSeq(p, Len(d) + 1, Len(p))

\* the files and sub-directories of the mapping one segment below directory d
ImmediateChildren(m, d) ==
  {p \in Keys(m) : StartsWith(p, d) /\ IndexOfSlash(Rest(p, d), 1) = 0}
    \cup {d \o SubSeq(Rest(p, d), 1, IndexOfSlash(Rest(p, d), 1)) :
            p \in {k \in Keys(m) : StartsWith(k, d) /\ IndexOfSlash(Rest(k, d), 1) > 0}}

\* the same dict in every insertion order
Reorderings(m) == {m2 \in [DOMAIN m -> Range(m)] : Range(m2) = Range(m)}

\* C2: for every directory key of the built listing, the entries are exactly the
\* immediate children of that directory (no deeper descendant, no duplicate, not
\* the directory itself or an ancestor), whatever the insertion order.
C2_ExactlyImmediateChildren ==
  Built =>
    \A d \in DOMAIN listing :
      /\ Cardinality(Range(listing[d])) = Len(listing[d])
      /\ {Denotes(d, e) : e \in Range(listing[d])} = ImmediateChildren(mappings, d)
      /\ \A m2 \in Reorderings(mappings) :
           /\ DOMAIN BuildListing(m2) = DOMAIN listing
           /\ Range(BuildListing(m2)[d]) = Range(listing[d])

-----------------------------------------------------------------------------
(* Properties of the request handler *)

Done(r) == req[r].pc = "done"

Undefined(path) == path \notin Keys(mappings) /\ path \notin DOMAIN listing

\* a single path segment relative to the listed directory: a name, with at most
\* one '/', at its end
IsSegment(h) ==
  /\ h # <<>>
  /\ h[1] # "/"
  /\ IndexOfSlash(h, 1) \in {0, Len(h)}

\* C3: a GET on a directory path answers 200 with one link per child entry, whose
\* href and text are the child's single path segment relative to the directory.
C3_ListingLinksAreSegments ==
  \A r \in Requests :
    (Done(r) /\ req[r].method = "GET" /\ req[r].path \in DOMAIN listing
       /\ req[r].path \notin Keys(mappings)) =>
      /\ req[r].status = 200
      /\ Len(req[r].body) = Len(listing[req[r].path])
      /\ \A i \in DOMAIN req[r].body :
           /\ req[r].body[i].href = req[r].body[i].text
           /\ IsSegment(req[r].body[i].href)

\* C4 as stated: a request for a path that is neither a file nor a directory key
\* is answered 404 whatever its method, and spawns no process.
C4_Undefined404AnyMethod ==
  \A r \in Requests :
    (Done(r) /\ Undefined(req[r].path)) =>
      req[r].status = 404 /\ req[r].procs = <<>>

\* C4, amended: such a request spawns no process and is answered 404 when its
\* method is GET or HEAD; for any other method the router answers 405 and the
\* handler does not run.
C4_Undefined404ForGetAndHead ==
  \A r \in Requests :
    (Done(r) /\ Undefined(req[r].path)) =>
      /\ req[r].procs = <<>>
      /\ ~req[r].sent
      /\ req[r].status = IF req[r].method \in {"GET", "HEAD"} THEN 404 ELSE 405

C4_Witness ==
  \E r \in Requests :
    /\ Done(r) /\ Undefined(req[r].path)
    /\ req[r].method = "HEAD" /\ req[r].status = 404

\* the response of r is a 200 for a mapped file, its headers sent
File200(r) == req[r].loc # "" /\ req[r].sent /\ req[r].status = 200

\* C5 as stated: a HEAD and a GET on the same mapped file carry identical header
\* sets, in any order and interleaving of the two requests.
C5_HeadAndGetSameHeaders ==
  \A r1, r2 \in Requests :
    (File200(r1) /\ File200(r2) /\ req[r1].method = "HEAD" /\ req[r2].method = "GET"
       /\ req[r1].path = req[r2].path) =>
      req[r1].headers = req[r2].headers

\* C5, amended: every 200 for a mapped file carries a record that was written to
\* the cache for its location, and a HEAD and a GET on the same file carry
\* identical header sets unless two metadata queries for that location have
\* completed (requests that miss at the same time each use their own query's
\* record, and the Date of the two can differ).
C5_SameHeadersUnlessTwoQueries ==
  /\ \A r \in Requests : File200(r) => req[r].headers \in Range(stored[req[r].loc])
  /\ \A r1, r2 \in Requests :
       (File200(r1) /\ File200(r2) /\ req[r1].method = "HEAD" /\ req[r2].method = "GET"
          /\ req[r1].path = req[r2].path /\ Len(stored[req[r1].loc]) < 2) =>
         req[r1].headers = req[r2].headers

Queried(q) == \E i \in DOMAIN q.procs : q.procs[i][1] = "lsjson"

\* a HEAD that queried and a GET of the same file served from the cache
C5_Witness ==
  \E r1, r2 \in Requests :
    /\ File200(r1) /\ File200(r2) /\ Done(r1) /\ Done(r2)
    /\ req[r1].method = "HEAD" /\ req[r2].method = "GET"
    /\ req[r1].path = req[r2].path
    /\ Queried(req[r1]) /\ ~Queried(req[r2])
    /\ req[r1].headers = req[r2].headers
    /\ req[r1].headers.ContentLength > 0

\* C6: for a GET on a mapped file whose content-read process was spawned, the
\* status is 200 and the body written so far, followed by what is buffered in the
\* pipe and what the process has yet to write, is the process's output in order;
\* the response of a client that stayed connected is finalized only at end of
\* file, and then the body is the whole output and Content-Length is the number
\* of body bytes.
C6_BodyIsProcessOutput ==
  \A r \in Requests :
    (req[r].method = "GET" /\ pipe[r].bound /\ req[r].sent) =>
      /\ req[r].status = 200
      /\ req[r].body \o pipe[r].buf \o pipe[r].pending = Content(req[r].loc)
      /\ req[r].finalized <=> (Done(r) /\ ~req[r].cancelled)
      /\ (Done(r) /\ ~req[r].cancelled) =>
           /\ pipe[r].eof
           /\ req[r].body = Content(req[r].loc)
           /\ req[r].headers.ContentLength = Len(req[r].body)

\* a finished GET whose body took more than one chunk
C6_Witness ==
  \E r \in Requests :
    /\ Done(r) /\ req[r].method = "GET" /\ req[r].finalized
    /\ req[r].body = <<"x", "y", "z">>
    /\ Len(req[r].body) > chunk_size

\* r's handler starts a metadata Get for a mapped file in this step
GetStarts(r) == req[r].pc = "idle" /\ req'[r].pc # "idle" /\ req'[r].loc # ""

\* a query for loc has completed successfully
Succeeded(loc) == \E i \in DOMAIN stored[loc] : stored[loc][i] # NoneVal

\* the record the first successful query for loc returned
FirstRecord(loc) ==
  stored[loc][CHOOSE i \in DOMAIN stored[loc] :
                /\ stored[loc][i] # NoneVal
                /\ \A j \in 1..(i - 1) : stored[loc][j] = NoneVal]

\* C7 as stated: once a Get for a location has completed successfully, every
\* later Get for it returns that same record and makes no external query.
C7_LaterGetSameRecord ==
  [][\A r \in Requests :
       (GetStarts(r) /\ Succeeded(req'[r].loc)) =>
         /\ ~Queried(req'[r])
         /\ req'[r].headers = FirstRecord(req'[r].loc)]_vars

\* C8: a failed metadata query is not cached, so the Get after it queries again:
\* every 404 for a mapped file comes from a query that this request made itself,
\* never from a Miss held in the cache.
C8_FailedQueryIsRetried ==
  \A r \in Requests :
    (Done(r) /\ req[r].loc # "" /\ req[r].status = 404) => Queried(req[r])

\* r's handler asked for the content-read process and got none
SpawnFailed(r) ==
  /\ req[r].pc \in {"prepare", "read", "done"}
  /\ req[r].method = "GET" /\ req[r].loc # ""
  /\ \E i \in DOMAIN req[r].procs : req[r].procs[i][1] = "cat"
  /\ ~pipe[r].bound

\* C17: when the content-read process cannot be spawned, the request ends in a
\* server-error response: no 200 headers are sent and the handler does not reach
\* the streaming loop without a process.
C17_SpawnFailureIsServerError ==
  \A r \in Requests :
    SpawnFailed(r) =>
      /\ ~req[r].sent
      /\ ~req[r].crashed
      /\ Done(r) => req[r].status = 500

\* C18: once the handler of a GET has ended on a client disconnect, its
\* content-read process is not running.
C18_CancelTerminatesProcess ==
  \A r \in Requests :
    (Done(r) /\ req[r].cancelled) => ~Running(pipe[r])

-----------------------------------------------------------------------------
(* Properties of the mount session *)

\* the child has exited and RCloneMount is still in its wait loop
ExitedBeforeMount == ms.pc = "wait" /\ ms.child = "exited"

\* C9: when the mount child exits before the mount is observed, RCloneMount leaves
\* the wait loop by its next step, which raises the assertion failure; it does
\* not hang; and a session that failed so never handed the process to the caller
\* and started no second mount process.
C9_EarlyExitFails ==
  /\ [][ExitedBeforeMount =>
          \/ ExitedBeforeMount'
          \/ ms'.pc = "cleanup" /\ ms'.error = "AssertionError" /\ ~ms'.handed]_vars
  /\ ExitedBeforeMount ~> (ms.error = "AssertionError")
  /\ [](ms.error = "AssertionError" => ~ms.handed /\ ms.spawns = 1 /\ ms.pc # "active")

\* the session has ended on the assertion failure after the child exited with a
\* failure code
C9_Witness ==
  /\ ms.pc = "end"
  /\ ms.error = "AssertionError"
  /\ ms.child = "exited" /\ ms.rc = 1
  /\ ~ms.handed

\* C10: every session that was handed to the caller shuts down by sending the
\* interrupt, observing the child's exit, cleaning the runner up and releasing
\* the workspace, in this order, and the runner is never cleaned up while the
\* child is running.
C10_ShutdownOrder ==
  /\ (ms.pc = "end" /\ ms.handed) =>
       ms.events = <<"sigint", "exit", "cleanup", "release">>
  /\ ms.runner = "cleaned" => ms.child # "running"

-----------------------------------------------------------------------------
(* Properties of the mount-point directory *)

\* the session is over: MountTemporaryDirectory's finally has run
Ended == ms.pc = "end"

\* C11: a mount-point directory supplied by the caller is never removed by
\* MountTemporaryDirectory: it exists in every state of the session and rmdir is
\* never called nor about to be called on it, whatever is_mount returned during
\* release and however the session went.
C11_SuppliedDirNeverRemoved ==
  ms.arg = "given" => (ms.dir /\ ms.rmdirs = 0 /\ ms.pc # "rmdir")

\* a session on a supplied directory that was handed to the caller and whose
\* release found the path mounted, the one case in which line 204 can be reached
C11_Witness ==
  /\ Ended /\ ms.arg = "given" /\ ms.handed
  /\ ms.seen = <<TRUE>>
  /\ ms.dir

\* C12: when the directory was made by MountTemporaryDirectory and the last look
\* of the release found the path not to be a mount, the directory has been
\* removed by the end of teardown.
C12_OwnedDirRemovedWhenUnmounted ==
  (Ended /\ ms.arg = "none" /\ ms.seen # <<>> /\ ~ms.seen[Len(ms.seen)]) => ~ms.dir

\* C13: when every look of the release found the path still mounted, rmdir is not
\* attempted, the directory stays, and teardown ends without an error of its own.
C13_StillMountedLeftInPlace ==
  (ms.seen # <<>> /\ \A i \in DOMAIN ms.seen : ms.seen[i]) =>
    /\ ms.pc # "rmdir"
    /\ ms.rmdirs = 0
    /\ ms.dir

-----------------------------------------------------------------------------
(* Properties of the merged view *)

-----------------------------------------------------------------------------
(* Properties of the hand-over *)

\* C15: the step that hands the process to the caller is taken from the wait loop
\* in a state where the path is a mount and the child has not exited, the very
\* state the loop condition and the assertion looked at; the session is Active
\* only after that step, and before it the body has done nothing.
C15_HandedOnlyWhenLive ==
  /\ [][(ms'.handed /\ ~ms.handed) =>
          /\ ms.pc = "wait" /\ ms.mounted /\ ms.child = "running"
          /\ ms'.pc = "active" /\ ms'.mounted /\ ms'.child = "running"]_vars
  /\ [](ms.pc = "active" => ms.handed)
  /\ [](~ms.handed =>
          /\ ms.pc \notin {"active", "stop", "await_exit"}
          /\ ms.written = {}
          /\ \A r \in Requests : req[r] = IdleReq)

\* an Active session on a live mount
C15_Witness ==
  /\ ms.pc = "active" /\ ms.handed
  /\ ms.mounted /\ ms.child = "running"
  /\ ms.spawns = 1

-----------------------------------------------------------------------------
(* Properties of the bounded cache *)

\* the cached key whose last use is the oldest
LeastRecent(b) == SelectSeq(b.order, LAMBDA x : x \in OdKeys(b.cache))[1]

\* C16: when a store overflows the bound, the entry popped is the least recently
\* used of the entries the cache held, a store and a hit both being a use.
C16_EvictsLeastRecentlyUsed ==
  [][\A e \in OdKeys(bc.cache) \ OdKeys(bc'.cache) : e = LeastRecent(bc)]_vars

\* C20: with cache_size >= 1, in every interleaving of concurrent calls the cache
\* holds at most cache_size entries, each key once, in every state between two
\* suspensions; no call fails on its key having been popped; a call that fetched
\* returns the value of its own fetch, and a hit a value stored for its key.
C20_BoundedUnderConcurrency ==
  bc.pc = "on" =>
    /\ Len(bc.cache) <= cache_size
    /\ Cardinality(OdKeys(bc.cache)) = Len(bc.cache)
    /\ \A c \in Callers :
         LET x == bc.call[c] IN
         x.pc = "done" =>
           /\ x.err # "KeyError"
           /\ (x.err = "none" /\ ~x.hit) => x.ret = <<x.k, c>>
           /\ x.hit => (x.err = "none" /\ x.ret[1] = x.k)

\* two callers missed on the same key at the same time and each has the value of
\* its own fetch, while the cache is full and has popped its oldest key
C20_Witness ==
  /\ bc.pc = "on"
  /\ bc.call["c1"].pc = "done" /\ bc.call["c2"].pc = "done"
  /\ ~bc.call["c1"].hit /\ ~bc.call["c2"].hit
  /\ bc.call["c1"].k = bc.call["c2"].k
  /\ bc.call["c1"].ret = <<bc.call["c1"].k, "c1">>
  /\ bc.call["c2"].ret = <<bc.call["c2"].k, "c2">>
  /\ Len(bc.cache) = cache_size
  /\ Len(bc.order) > cache_size

-----------------------------------------------------------------------------
(* Properties of the session's teardown *)

\* the session is on its way out with the runner up: the body has ended (with
\* the child running or already gone), the interrupt has been sent, an exception
\* is passing _serve (failed spawn, failed assertion, failed signal), or the
\* child has exited before the mount appeared
Leaving ==
  /\ ms.runner = "up"
  /\ ms.pc \in {"stop", "await_exit", "cleanup"} \/ ExitedBeforeMount

\* C19: on every way out of a session whose runner was started, the runner is
\* eventually cleaned up; no session ends with the server still listening; and
\* the runner is cleaned up nowhere but in _serve's finally.
C19_RunnerEventuallyCleaned ==
  /\ Leaving ~> (ms.runner = "cleaned")
  /\ [](Ended => ms.runner = "cleaned")
  /\ [](ms.runner = "cleaned" => ms.pc \in {"release", "rmdir", "end"})

\* a session over after the child had exited by itself and the signal failed,
\* its runner cleaned up
C19_Witness ==
  /\ Ended
  /\ ms.handed
  /\ ms.error = "ProcessLookupError"
  /\ ms.runner = "cleaned"

====
